---------------------------- MODULE Spec2Model ----------------------------
(***************************************************************************)
(* Model of src/main.rs: split_comp_work, a parallel map that runs the     *)
(* transform in the calling thread for short vectors and otherwise splits  *)
(* the vector into chunks, spawns one thread per chunk, and reassembles    *)
(* the (index, result) pairs received from an mpsc channel.                *)
(*                                                                         *)
(* Indices are the code's (0-based).  A Rust Vec is a TLA+ sequence, so    *)
(* the element with index k is v[k + 1].                                   *)
(***************************************************************************)
EXTENDS Integers, Sequences, FiniteSets

(***************************************************************************)
(* Program constants.                                                      *)
(***************************************************************************)
THRESHOLD == 8

MAX_NUM_OF_THREADS == 64

EVEN_BASE == 2

(***************************************************************************)
(* Bounds of the model.                                                    *)
(*   MaxLen      longest vector of the concurrent specification            *)
(*   MaxPanics   most values a client function panics on                   *)
(*   MaxPlanLen  longest vector of the planning specification              *)
(***************************************************************************)
MaxLen == 9

MaxPanics == 2

MaxPlanLen == 520

(***************************************************************************)
(* The state.                                                              *)
(*   vector, function   the arguments of split_comp_work                   *)
(*   pc                 where the calling thread is                        *)
(*   strategy           the branch of line 20 the call took: "direct"      *)
(*                      (the one that prints "Doing computational work in  *)
(*                      the current thread"), "sharded", or "none" before  *)
(*                      the call                                           *)
(*   sender, receiver   whether the orchestrator's two channel handles     *)
(*                      are alive                                          *)
(*   channel            the messages sent and not yet received (FIFO)      *)
(*   index_of_cur_item, num_of_threads, items_per_thread, i                *)
(*                      the locals of the spawn loop                       *)
(*   threads            the spawned threads, in spawn order: the chunk     *)
(*                      each was given (vector_copy), how many of its      *)
(*                      pairs it has taken, and whether it is running      *)
(*                      (and so holds its sender clone), finished or       *)
(*                      panicked                                           *)
(*   result             the result vector of the call                      *)
(*   calls, sent, written                                                  *)
(*                      history: per index, how often function was called  *)
(*                      on it, how many messages were sent for it, how     *)
(*                      often its slot was written                         *)
(***************************************************************************)
VARIABLES vector, function, pc, strategy, sender, receiver, channel,
          index_of_cur_item, num_of_threads, items_per_thread, i,
          threads, result, calls, sent, written

vars == <<vector, function, pc, strategy, sender, receiver, channel,
          index_of_cur_item, num_of_threads, items_per_thread, i,
          threads, result, calls, sent, written>>

(***************************************************************************)
(* Values.  An Option or a call that may panic is a sequence of length     *)
(* at most one: <<v>> is Some(v) / a normal return of v, << >> is None /   *)
(* a panic.                                                                *)
(***************************************************************************)
None == << >>

Some(v) == <<v>>

\* R::default() for R = bool
DefaultR == FALSE

\* i64::checked_rem for the operands the model uses: None when the divisor
\* is zero, else the remainder with the sign of the dividend
checked_rem(num, rhs) ==
    IF rhs = 0 THEN None
    ELSE IF num >= 0 THEN Some(num % (IF rhs < 0 THEN -rhs ELSE rhs))
    ELSE Some(-((-num) % (IF rhs < 0 THEN -rhs ELSE rhs)))

\* fn is_even(num: i64) -> bool; expect() panics on None
is_even(num) ==
    LET rem == checked_rem(num, EVEN_BASE)
    IN  IF rem = None THEN None ELSE Some(rem[1] = 0)

(***************************************************************************)
(* A function pointer handed to split_comp_work.  The repository's own     *)
(* client function is is_even, which is total; the other pointers stand    *)
(* for a client function that panics on the values of the set bad and      *)
(* agrees with is_even elsewhere.                                          *)
(***************************************************************************)
IsEvenPtr == [name |-> "is_even", bad |-> {}]

PanicsOnPtr(S) == [name |-> "panics_on", bad |-> S]

\* function(item): the return value, or a panic
Apply(f, item) ==
    IF f.name = "panics_on" /\ item \in f.bad THEN None ELSE is_even(item)

\* the vector 1, 2, ..., n of test_a and test_b
Iota(n) == [k \in 1..n |-> k]

\* ((a as f64) / (b as f64)).ceil() as i64, for 0 <= a far below 2^53 and
\* b > 0, where the f64 quotient rounds to the same integer as the exact
\* one.  The divisor is THRESHOLD or a thread count that is at least 1
\* (the sharded path is entered only with a >= THRESHOLD).
CeilDiv(a, b) == (a + b - 1) \div b

\* mutant: the threshold itself still runs in the current thread
UseCurThread_Inclusive(len) == len <= THRESHOLD

\* line 20: no threads are needed
UseCurThread(len) == len < THRESHOLD

\* mutant: the cap of lines 37-39 is missing
NumOfThreads_NoCap(len) == CeilDiv(len, THRESHOLD)

\* lines 34-39: the number of threads of the sharded path
NumOfThreads(len) ==
    LET n == CeilDiv(len, THRESHOLD)
    IN  IF n > MAX_NUM_OF_THREADS THEN MAX_NUM_OF_THREADS ELSE n

\* mutant: the quotient is truncated instead of rounded up
ItemsPerThread_Floor(len, threads_n) == len \div threads_n

\* line 42: the number of items per thread
ItemsPerThread(len, threads_n) == CeilDiv(len, threads_n)

\* lines 48-52: the end of the chunk that starts at cur
EndIndex(cur, items, len) ==
    IF cur + items > len THEN len ELSE cur + items

\* mutant: the index of a pair is counted from one
VectorCopy_OneBased(v, cur, end_index) ==
    [k \in 1..(end_index - cur) |-> <<cur + k, v[cur + k]>>]

\* mutant: the pair carries the index within the slice
VectorCopy_SliceIndex(v, cur, end_index) ==
    [k \in 1..(end_index - cur) |-> <<k - 1, v[cur + k]>>]

\* lines 54-59: the pairs (original index, item) of vector[cur..end_index]
VectorCopy(v, cur, end_index) ==
    [k \in 1..(end_index - cur) |-> <<cur + (k - 1), v[cur + k]>>]

\* per-index counter, all zero
Zeros(n) == [k \in 0..(n - 1) |-> 0]

Bump(cnt, k) == [cnt EXCEPT ![k] = @ + 1]

(***************************************************************************)
(* do_comp_work_in_cur_thread: function applied to the items in order,     *)
(* each return value pushed; a panic of function unwinds out of the loop   *)
(* and out of the call.  n_calls counts the calls of function made.        *)
(***************************************************************************)
RECURSIVE CurThreadLoop(_, _, _, _)
CurThreadLoop(v, f, k, acc) ==
    IF k > Len(v) THEN [panicked |-> FALSE, result |-> acc, n_calls |-> k - 1]
    ELSE LET r == Apply(f, v[k])
         IN  IF r = None
             THEN [panicked |-> TRUE, result |-> acc, n_calls |-> k]
             ELSE CurThreadLoop(v, f, k + 1, Append(acc, r[1]))

\* mutant: an item function panics on is skipped and the loop goes on
RECURSIVE CurThreadLoop_Skips(_, _, _, _)
CurThreadLoop_Skips(v, f, k, acc) ==
    IF k > Len(v) THEN [panicked |-> FALSE, result |-> acc, n_calls |-> k - 1]
    ELSE LET r == Apply(f, v[k])
         IN  CurThreadLoop_Skips(v, f, k + 1,
                 IF r = None THEN acc ELSE Append(acc, r[1]))

do_comp_work_in_cur_thread_Skips(v, f) == CurThreadLoop_Skips(v, f, 1, << >>)

do_comp_work_in_cur_thread(v, f) == CurThreadLoop(v, f, 1, << >>)

(***************************************************************************)
(* Initial states: split_comp_work is about to be called.                  *)
(***************************************************************************)
InitLocals ==
    /\ pc = "call"
    /\ strategy = "none"
    /\ sender = FALSE
    /\ receiver = FALSE
    /\ channel = << >>
    /\ index_of_cur_item = 0
    /\ num_of_threads = 0
    /\ items_per_thread = 0
    /\ i = 0
    /\ threads = << >>
    /\ result = << >>
    /\ calls = Zeros(Len(vector))
    /\ sent = Zeros(Len(vector))
    /\ written = Zeros(Len(vector))

Functions ==
    {IsEvenPtr} \cup
    {PanicsOnPtr(S) : S \in {T \in SUBSET (1..MaxLen) :
                                 Cardinality(T) \in 1..MaxPanics}}

Init ==
    /\ vector \in {Iota(n) : n \in 0..MaxLen}
    /\ function \in Functions
    /\ InitLocals

InitPlan ==
    /\ vector \in {Iota(n) : n \in 0..MaxPlanLen}
    /\ function = IsEvenPtr
    /\ InitLocals

(***************************************************************************)
(* The calling thread.                                                     *)
(***************************************************************************)
\* lines 20-26 and 89-98: the vector is shorter than the threshold
CallDirect ==
    /\ pc = "call"
    /\ UseCurThread(Len(vector))
    /\ strategy' = "direct"
    /\ LET run == do_comp_work_in_cur_thread(vector, function)
       IN  /\ pc' = IF run.panicked THEN "aborted" ELSE "returned"
           /\ result' = IF run.panicked THEN << >> ELSE run.result
           /\ calls' = [k \in 0..(Len(vector) - 1) |->
                            IF k < run.n_calls THEN 1 ELSE 0]
    /\ UNCHANGED <<vector, function, sender, receiver, channel,
                   index_of_cur_item, num_of_threads, items_per_thread, i,
                   threads, sent, written>>

\* lines 20, 29-42: the channel is created and the split is planned
CallSharded ==
    /\ pc = "call"
    /\ ~UseCurThread(Len(vector))
    /\ strategy' = "sharded"
    /\ sender' = TRUE
    /\ receiver' = TRUE
    /\ channel' = << >>
    /\ index_of_cur_item' = 0
    /\ num_of_threads' = NumOfThreads(Len(vector))
    /\ items_per_thread' =
           ItemsPerThread(Len(vector), NumOfThreads(Len(vector)))
    /\ i' = 0
    /\ pc' = "spawn"
    /\ UNCHANGED <<vector, function, threads, result, calls, sent, written>>

\* lines 45-71: one iteration of the spawn loop
SpawnThread ==
    /\ pc = "spawn"
    /\ i < num_of_threads
    /\ LET end_index ==
               EndIndex(index_of_cur_item, items_per_thread, Len(vector))
           vector_copy == VectorCopy(vector, index_of_cur_item, end_index)
       IN  /\ threads' = Append(threads,
                  [vector |-> vector_copy, taken |-> 0, state |-> "running"])
           /\ index_of_cur_item' = end_index
    /\ i' = i + 1
    /\ UNCHANGED <<vector, function, pc, strategy, sender, receiver, channel,
                   num_of_threads, items_per_thread, result, calls, sent,
                   written>>

\* mutant: drop(sender) of line 74 is missing
DropSender_Kept ==
    /\ pc = "spawn"
    /\ ~(i < num_of_threads)
    /\ result' = [k \in 1..Len(vector) |-> DefaultR]
    /\ pc' = "recv"
    /\ UNCHANGED <<vector, function, strategy, sender, receiver, channel,
                   index_of_cur_item, num_of_threads, items_per_thread, i,
                   threads, calls, sent, written>>

\* lines 45, 74-77: the loop is over; the orchestrator drops its sender and
\* fills the result vector with default values
DropSender ==
    /\ pc = "spawn"
    /\ ~(i < num_of_threads)
    /\ sender' = FALSE
    /\ result' = [k \in 1..Len(vector) |-> DefaultR]
    /\ pc' = "recv"
    /\ UNCHANGED <<vector, function, strategy, receiver, channel,
                   index_of_cur_item, num_of_threads, items_per_thread, i,
                   threads, calls, sent, written>>

\* mutant: the sender of a panicked thread is never dropped
LiveSenders_PanicLeaks ==
    (IF sender THEN 1 ELSE 0)
    + Cardinality({w \in 1..Len(threads) :
                       threads[w].state \in {"running", "panicked"}})

\* the number of sender handles alive: the orchestrator's and one per
\* running thread
LiveSenders ==
    (IF sender THEN 1 ELSE 0)
    + Cardinality({w \in 1..Len(threads) : threads[w].state = "running"})

\* mutant: the loop ends as soon as the channel is found empty
Disconnected_EmptyOnly == channel = << >>

\* Receiver::recv returns Err, ending the loop of line 80, when the channel
\* is empty and every sender has been dropped
Disconnected == channel = << >> /\ LiveSenders = 0

\* mutant: the slot after the one the message names
WriteSlot_OffByOne(res, index, item) ==
    [res EXCEPT ![((index + 1) % Len(res)) + 1] = item]

\* line 82
WriteSlot(res, index, item) == [res EXCEPT ![index + 1] = item]

\* lines 80-83: one message is received and stored
Receive ==
    /\ pc = "recv"
    /\ channel # << >>
    /\ LET received == Head(channel)
       IN  /\ result' = WriteSlot(result, received[1], received[2])
           /\ written' = Bump(written, received[1])
    /\ channel' = Tail(channel)
    /\ UNCHANGED <<vector, function, pc, strategy, sender, receiver,
                   index_of_cur_item, num_of_threads, items_per_thread, i,
                   threads, calls, sent>>

\* mutant: the call returns, dropping the receiver, as soon as the channel
\* is found empty after the orchestrator's own sender is gone
Return_WithoutWaiting ==
    /\ pc = "recv"
    /\ channel = << >>
    /\ ~sender
    /\ pc' = "returned"
    /\ receiver' = FALSE
    /\ UNCHANGED <<vector, function, strategy, sender, channel,
                   index_of_cur_item, num_of_threads, items_per_thread, i,
                   threads, result, calls, sent, written>>

\* lines 80, 85: the receive loop ends and the call returns the result;
\* the receiver is dropped
Return ==
    /\ pc = "recv"
    /\ Disconnected
    /\ pc' = "returned"
    /\ receiver' = FALSE
    /\ UNCHANGED <<vector, function, strategy, sender, channel,
                   index_of_cur_item, num_of_threads, items_per_thread, i,
                   threads, result, calls, sent, written>>

(***************************************************************************)
(* A spawned thread: do_comp_work_in_some_thread.                          *)
(***************************************************************************)
HasNext(t) == t.state = "running" /\ t.taken < Len(t.vector)

\* mutant: the iterator yields its first pair twice
NextPair_Repeat(t) == t.vector[IF t.taken = 1 THEN 1 ELSE t.taken + 1]

NextPair(t) == t.vector[t.taken + 1]

\* mutant: the thread stores its value in the result vector itself
ThreadSend_WritesResult(w) ==
    /\ w \in 1..Len(threads)
    /\ HasNext(threads[w])
    /\ LET pair == NextPair(threads[w])
           r == Apply(function, pair[2])
       IN  /\ r # None
           /\ calls' = Bump(calls, pair[1])
           /\ receiver
           /\ channel' = Append(channel, <<pair[1], r[1]>>)
           /\ sent' = Bump(sent, pair[1])
           /\ threads' = [threads EXCEPT ![w].taken = @ + 1]
           /\ result' = [result EXCEPT ![pair[1] + 1] = r[1]]
    /\ UNCHANGED <<vector, function, pc, strategy, sender, receiver,
                   index_of_cur_item, num_of_threads, items_per_thread, i,
                   written>>

\* lines 103-107: function returns and the pair is sent; send fails, and
\* expect() panics, when the receiver has been dropped
ThreadSend(w) ==
    /\ w \in 1..Len(threads)
    /\ HasNext(threads[w])
    /\ LET pair == NextPair(threads[w])
           r == Apply(function, pair[2])
       IN  /\ r # None
           /\ calls' = Bump(calls, pair[1])
           /\ IF receiver
              THEN /\ channel' = Append(channel, <<pair[1], r[1]>>)
                   /\ sent' = Bump(sent, pair[1])
                   /\ threads' = [threads EXCEPT ![w].taken = @ + 1]
              ELSE /\ threads' = [threads EXCEPT ![w].taken = @ + 1,
                                                 ![w].state = "panicked"]
                   /\ UNCHANGED <<channel, sent>>
    /\ UNCHANGED <<vector, function, pc, strategy, sender, receiver,
                   index_of_cur_item, num_of_threads, items_per_thread, i,
                   result, written>>

\* mutant: the panic is caught and the thread goes on with its next pair
ThreadPanic_GoesOn(w) ==
    /\ w \in 1..Len(threads)
    /\ HasNext(threads[w])
    /\ LET pair == NextPair(threads[w])
       IN  /\ Apply(function, pair[2]) = None
           /\ calls' = Bump(calls, pair[1])
    /\ threads' = [threads EXCEPT ![w].taken = @ + 1]
    /\ UNCHANGED <<vector, function, pc, strategy, sender, receiver, channel,
                   index_of_cur_item, num_of_threads, items_per_thread, i,
                   result, sent, written>>

\* lines 103-104: function panics; the thread unwinds, which drops its
\* sender, and nothing is sent for this pair or the rest of the chunk
ThreadPanic(w) ==
    /\ w \in 1..Len(threads)
    /\ HasNext(threads[w])
    /\ LET pair == NextPair(threads[w])
       IN  /\ Apply(function, pair[2]) = None
           /\ calls' = Bump(calls, pair[1])
    /\ threads' = [threads EXCEPT ![w].taken = @ + 1, ![w].state = "panicked"]
    /\ UNCHANGED <<vector, function, pc, strategy, sender, receiver, channel,
                   index_of_cur_item, num_of_threads, items_per_thread, i,
                   result, sent, written>>

\* lines 103, 109: the chunk is exhausted; the thread ends and its sender
\* is dropped
ThreadExit(w) ==
    /\ w \in 1..Len(threads)
    /\ threads[w].state = "running"
    /\ ~HasNext(threads[w])
    /\ threads' = [threads EXCEPT ![w].state = "finished"]
    /\ UNCHANGED <<vector, function, pc, strategy, sender, receiver, channel,
                   index_of_cur_item, num_of_threads, items_per_thread, i,
                   result, calls, sent, written>>

Orchestrator ==
    \/ CallDirect
    \/ CallSharded
    \/ SpawnThread
    \/ DropSender
    \/ Receive
    \/ Return

Thread(w) ==
    \/ ThreadSend(w)
    \/ ThreadPanic(w)
    \/ ThreadExit(w)

Next ==
    \/ Orchestrator
    \/ \E w \in 1..MAX_NUM_OF_THREADS : Thread(w)

Spec == Init /\ [][Next]_vars

(***************************************************************************)
(* The planning specification: the calling thread up to the end of the     *)
(* spawn loop, for vectors long enough to reach the thread cap.  The       *)
(* spawn loop reads nothing a spawned thread writes, so the chunks it      *)
(* hands out are the same under every schedule of the threads; here the    *)
(* threads are not yet scheduled.                                          *)
(***************************************************************************)
NextPlan ==
    \/ CallDirect
    \/ CallSharded
    \/ SpawnThread
    \/ DropSender

SpecPlan == InitPlan /\ [][NextPlan]_vars

(***************************************************************************)
(* Fair scheduling: the operating system eventually runs every thread      *)
(* that can take a step, the calling thread included.  Threads beyond      *)
(* NumOfThreads(MaxLen) are never spawned from Init.                       *)
(***************************************************************************)
FairSpec ==
    /\ Spec
    /\ WF_vars(Orchestrator)
    /\ \A w \in 1..NumOfThreads(MaxLen) : WF_vars(Thread(w))

(***************************************************************************)
(* Vocabulary of the properties.                                           *)
(***************************************************************************)
\* function returns on every item of the vector
Total == \A k \in 1..Len(vector) : Apply(function, vector[k]) # None

Indices == 0..(Len(vector) - 1)

Returned == pc = "returned"

Sharded == strategy = "sharded"

\* the spawn loop is over
SpawnDone == Sharded /\ pc # "spawn"

ThreadIds == 1..Len(threads)

\* thread w holds its clone of the sender
HoldsSender(w) == threads[w].state = "running"

\* the chunks of the first w threads, one after the other
RECURSIVE Chunks(_)
Chunks(w) == IF w = 0 THEN << >> ELSE Chunks(w - 1) \o threads[w].vector

\* the first n items of the vector, each with its index
Indexed(n) == [k \in 1..n |-> <<k - 1, vector[k]>>]

\* the position (from 1) of the first pair of v function panics on, or
\* Len(v) + 1 when there is none
FirstPanic(v) ==
    LET bad == {k \in 1..Len(v) : Apply(function, v[k][2]) = None}
    IN  IF bad = {} THEN Len(v) + 1
        ELSE CHOOSE k \in bad : \A j \in bad : k <= j

(***************************************************************************)
(* C1.  For a function that returns on every item, the sequence the call   *)
(* returns has the length of the vector and holds function(vector[i]) at   *)
(* every index i, on the direct and on the sharded path and in whatever    *)
(* order the messages were sent and received; such a call never aborts.    *)
(***************************************************************************)
C1_OrderPreserved ==
    Total =>
        /\ pc # "aborted"
        /\ Returned =>
              /\ Len(result) = Len(vector)
              /\ \A k \in 1..Len(vector) :
                     result[k] = Apply(function, vector[k])[1]

\* a sharded call of two threads has returned, with a total function
C1_Witness ==
    /\ Returned /\ Total /\ Sharded
    /\ Len(threads) = 2
    /\ \E k \in 1..Len(result) : result[k] # DefaultR

(***************************************************************************)
(* C2.  If function panics on some item of the vector, the call never      *)
(* returns a sequence.  (Refuted on the sharded path: the panic unwinds    *)
(* only the spawned thread, and the call returns a partly filled result.)  *)
(***************************************************************************)
C2_PanicAbortsCall == ~Total => ~Returned

(***************************************************************************)
(* C3.  In the state in which the call returns, every spawned thread has   *)
(* sent the result of every pair of its chunk or has panicked, no thread   *)
(* holds a sender, and every message sent has been received.               *)
(***************************************************************************)
C3_ReturnsAfterThreads ==
    (Returned /\ Sharded) =>
        /\ \A w \in ThreadIds :
               /\ ~HoldsSender(w)
               /\ \/ threads[w].state = "panicked"
                  \/ /\ threads[w].state = "finished"
                     /\ threads[w].taken = Len(threads[w].vector)
                     /\ \A k \in 1..Len(threads[w].vector) :
                            sent[threads[w].vector[k][1]] = 1
        /\ ~sender
        /\ channel = << >>
        /\ \A k \in Indices : written[k] = sent[k]

\* the call has returned after one thread finished and the other panicked
\* in the middle of its chunk
C3_Witness ==
    /\ Returned /\ Sharded
    /\ \E w \in ThreadIds : threads[w].state = "finished"
    /\ \E w \in ThreadIds :
           /\ threads[w].state = "panicked"
           /\ threads[w].taken > 1

(***************************************************************************)
(* C4.  The strategy depends on the length alone.  Below THRESHOLD the     *)
(* call takes the direct branch: no channel, no thread, no message, and    *)
(* function is called by the calling thread.  From THRESHOLD on it takes   *)
(* the sharded branch, and once the spawn loop is over at least one        *)
(* thread has been spawned.                                                *)
(***************************************************************************)
C4_StrategyByLength ==
    /\ pc # "call" =>
           strategy = IF Len(vector) < THRESHOLD THEN "direct" ELSE "sharded"
    /\ Len(vector) < THRESHOLD =>
           /\ threads = << >>
           /\ channel = << >>
           /\ ~sender /\ ~receiver
           /\ \A k \in Indices : sent[k] = 0 /\ written[k] = 0
           /\ pc \in {"call", "returned", "aborted"}
    /\ Len(vector) >= THRESHOLD =>
           /\ pc # "aborted"
           /\ SpawnDone => Len(threads) >= 1

\* a vector of exactly THRESHOLD items went through the sharded branch
C4_Witness ==
    /\ Len(vector) = THRESHOLD
    /\ Returned /\ Sharded
    /\ Len(threads) >= 1

(***************************************************************************)
(* C5.  On the sharded path at most MAX_NUM_OF_THREADS threads are ever    *)
(* spawned, and once the spawn loop is over at least one has been, also    *)
(* for lengths whose quotient by THRESHOLD exceeds the cap.                *)
(***************************************************************************)
C5_ThreadCount ==
    /\ Len(threads) <= MAX_NUM_OF_THREADS
    /\ SpawnDone => Len(threads) \in 1..MAX_NUM_OF_THREADS

\* the spawn loop is over for a length whose quotient exceeds the cap
C5_Witness ==
    /\ SpawnDone
    /\ CeilDiv(Len(vector), THRESHOLD) > MAX_NUM_OF_THREADS
    /\ Len(threads) = MAX_NUM_OF_THREADS

(***************************************************************************)
(* C6.  For a function that returns on every item, the sequence a sharded  *)
(* call returns is the sequence do_comp_work_in_cur_thread computes from   *)
(* the same vector, whatever the interleaving was.                         *)
(***************************************************************************)
C6_StrategiesAgree ==
    (Returned /\ Sharded /\ Total) =>
        LET direct == do_comp_work_in_cur_thread(vector, function)
        IN  ~direct.panicked /\ result = direct.result

\* a sharded call of two uneven chunks returned
C6_Witness ==
    /\ Returned /\ Sharded /\ Total
    /\ Len(threads) = 2
    /\ Len(threads[1].vector) > Len(threads[2].vector)

(***************************************************************************)
(* C7.  Under fair scheduling a sharded call with a total function         *)
(* eventually returns; the receive loop is left only when the channel is   *)
(* empty and every sender (the orchestrator's and each thread's) has been  *)
(* dropped, and once that holds the loop is left.                          *)
(***************************************************************************)
C7_ReceiveLoopEnds ==
    /\ (Sharded /\ Total) ~> Returned
    /\ [][(pc = "recv" /\ pc' # "recv") =>
              /\ channel = << >>
              /\ ~sender
              /\ \A w \in ThreadIds : ~HoldsSender(w)]_vars
    /\ (/\ pc = "recv"
        /\ channel = << >>
        /\ ~sender
        /\ \A w \in ThreadIds : ~HoldsSender(w)) ~> Returned

\* the receive loop was left after both threads finished
C7_Witness ==
    /\ Returned /\ Sharded /\ Total
    /\ LiveSenders = 0
    /\ \A w \in ThreadIds : threads[w].state = "finished"
    /\ Len(threads) = 2

(***************************************************************************)
(* C8.  No thread is spawned with an empty chunk.  (Refuted: the loop of   *)
(* line 45 spawns num_of_threads threads whether or not items are left.)   *)
(***************************************************************************)
C8_NoEmptyChunk == \A w \in ThreadIds : Len(threads[w].vector) > 0

(***************************************************************************)
(* C9.  The chunks handed out so far are, one after the other, exactly     *)
(* the items before index_of_cur_item, each paired with its original       *)
(* index; when the spawn loop is over they cover the whole vector.  So     *)
(* the chunks are contiguous and consecutive, and every index is in        *)
(* exactly one of them.                                                    *)
(***************************************************************************)
C9_ChunksPartition ==
    /\ Chunks(Len(threads)) = Indexed(index_of_cur_item)
    /\ SpawnDone => index_of_cur_item = Len(vector)

\* the spawn loop is over, with several full chunks and a shorter last one
C9_Witness ==
    /\ SpawnDone
    /\ Len(threads) > 2
    /\ Len(threads[1].vector) = items_per_thread
    /\ Len(threads[Len(threads)].vector) \in 1..(items_per_thread - 1)

(***************************************************************************)
(* C10.  On the sharded path at most one message is ever sent for an       *)
(* index and a slot is written at most once, only after its message was    *)
(* sent; with a total function, when the call returns exactly one message  *)
(* has been sent for every index and every slot has been written exactly   *)
(* once.                                                                   *)
(***************************************************************************)
C10_OneMessagePerIndex ==
    /\ \A k \in Indices : sent[k] <= 1 /\ written[k] <= sent[k]
    /\ (Returned /\ Sharded /\ Total) =>
           \A k \in Indices : sent[k] = 1 /\ written[k] = 1

\* every slot of a sharded call has been written once and the call returned
C10_Witness ==
    /\ Returned /\ Sharded
    /\ Indices # {}
    /\ \A k \in Indices : written[k] = 1

(***************************************************************************)
(* C11.  Once the spawn loop is over, every chunk but the last has         *)
(* exactly items_per_thread pairs.  (Refuted: when the full chunks         *)
(* exhaust the vector before the last iteration, the iterations that       *)
(* follow hand out shorter or empty chunks that are not the last one.)     *)
(***************************************************************************)
C11_OnlyLastChunkSmaller ==
    SpawnDone =>
        \A w \in 1..(Len(threads) - 1) :
            Len(threads[w].vector) = items_per_thread

(***************************************************************************)
(* C12.  Every iteration of the spawn loop has                             *)
(* 0 <= index_of_cur_item <= end_index <= vector.len(), end_index being    *)
(* the value the iteration leaves in index_of_cur_item; and every index    *)
(* carried by a pair of a chunk or by a message in the channel is below    *)
(* vector.len(), the length of the result vector that is written.          *)
(***************************************************************************)
C12_BoundsRespected ==
    /\ [](/\ index_of_cur_item \in 0..Len(vector)
          /\ \A w \in ThreadIds : \A k \in 1..Len(threads[w].vector) :
                 threads[w].vector[k][1] \in Indices
          /\ \A m \in 1..Len(channel) : channel[m][1] \in Indices
          /\ pc \in {"recv", "returned"} => Len(result) = Len(vector))
    /\ [][Len(threads') # Len(threads) =>
              /\ 0 <= index_of_cur_item
              /\ index_of_cur_item <= index_of_cur_item'
              /\ index_of_cur_item' <= Len(vector)
              /\ Len(threads'[Len(threads')].vector)
                     = index_of_cur_item' - index_of_cur_item]_vars

\* the last chunk was cut at the end of the vector and the message of the
\* last index is in the channel
C12_Witness ==
    /\ pc = "recv"
    /\ Len(threads) * items_per_thread > Len(vector)
    /\ index_of_cur_item = Len(vector)
    /\ \E m \in 1..Len(channel) : channel[m][1] = Len(vector) - 1

(***************************************************************************)
(* C13.  The orchestrator holds its sender exactly while it is in the      *)
(* spawn loop: it drops it only after the last thread is spawned, and      *)
(* before any slot is written.  While it drains the channel it holds no    *)
(* sender, so the live senders are those of the threads still running.     *)
(***************************************************************************)
C13_SenderDroppedBeforeDrain ==
    /\ pc = "spawn" => sender
    /\ pc \in {"recv", "returned"} =>
           /\ ~sender
           /\ Len(threads) = num_of_threads
           /\ LiveSenders =
                  Cardinality({w \in ThreadIds :
                                   threads[w].state \notin
                                       {"finished", "panicked"}})
    /\ sender => \A k \in Indices : written[k] = 0

\* the drain is under way: a slot is written, one thread still runs and
\* the other has finished
C13_Witness ==
    /\ pc = "recv"
    /\ ~sender
    /\ \E k \in Indices : written[k] = 1
    /\ \E w \in ThreadIds : threads[w].state = "running"
    /\ \E w \in ThreadIds : threads[w].state = "finished"

(***************************************************************************)
(* C14.  A step that changes the progress or state of a spawned thread     *)
(* changes nothing else but the channel, to which it appends at most one   *)
(* message, the pair's index with function's value: the result vector,     *)
(* the record of slots written, the input, the chunk of the thread and     *)
(* every other thread are as before.  Conversely a step that changes the   *)
(* result vector is a step of the orchestrator and changes no thread.      *)
(***************************************************************************)
C14_ThreadsLeaveResultAlone ==
    /\ [][\A w \in ThreadIds :
              threads'[w] # threads[w] =>
                  /\ result' = result
                  /\ written' = written
                  /\ vector' = vector
                  /\ pc' = pc
                  /\ Len(threads') = Len(threads)
                  /\ threads'[w].vector = threads[w].vector
                  /\ \A v \in ThreadIds \ {w} : threads'[v] = threads[v]
                  /\ \/ channel' = channel
                     \/ /\ threads'[w].taken = threads[w].taken + 1
                        /\ LET pair == threads[w].vector[threads'[w].taken]
                           IN  channel' = Append(channel,
                                   <<pair[1], Apply(function, pair[2])[1]>>)
         ]_vars
    /\ [][(result' # result \/ written' # written) =>
              /\ pc \in {"call", "spawn", "recv"}
              /\ \A w \in ThreadIds : threads'[w] = threads[w]]_vars

\* a thread has sent messages that wait in the channel while no slot has
\* been written yet
C14_Witness ==
    /\ pc = "recv"
    /\ Len(channel) >= 2
    /\ \E w \in ThreadIds : threads[w].taken >= 2
    /\ \A k \in Indices : written[k] = 0
    /\ \A k \in 1..Len(result) : result[k] = DefaultR

(***************************************************************************)
(* C15.  On the direct path a panic of function aborts the call: no        *)
(* sequence is returned, function has been called once on each item up to  *)
(* and including the first it panics on, and on no item after it.          *)
(***************************************************************************)
C15_DirectPanicPropagates ==
    (strategy = "direct" /\ ~Total) =>
        /\ pc = "aborted"
        /\ result = << >>
        /\ LET first == FirstPanic(Indexed(Len(vector)))
           IN  \A k \in Indices :
                   calls[k] = IF k + 1 <= first THEN 1 ELSE 0

\* a direct call aborted on an item in the middle of the vector
C15_Witness ==
    /\ strategy = "direct"
    /\ pc = "aborted"
    /\ Len(vector) >= 3
    /\ calls[0] = 1
    /\ calls[1] = 1
    /\ calls[Len(vector) - 1] = 0

(***************************************************************************)
(* C16.  A send never fails: whenever a spawned thread holds its sender    *)
(* the receiver is alive, and a thread has panicked only where function    *)
(* panicked on the pair it took last, never in expect().                   *)
(***************************************************************************)
C16_SendNeverFails ==
    \A w \in ThreadIds :
        /\ HoldsSender(w) => receiver
        /\ threads[w].state = "panicked" =>
               /\ threads[w].taken >= 1
               /\ Apply(function,
                        threads[w].vector[threads[w].taken][2]) = None

\* the channel is drained and a thread that has not sent everything still
\* holds its sender, the receiver waiting
C16_Witness ==
    /\ pc = "recv"
    /\ channel = << >>
    /\ receiver
    /\ \E k \in Indices : written[k] = 1
    /\ \E w \in ThreadIds :
           HoldsSender(w) /\ threads[w].taken < Len(threads[w].vector)

(***************************************************************************)
(* C17.  A panic of function in a spawned thread cannot hang the sharded   *)
(* call: under fair scheduling the call still returns, and whenever the    *)
(* orchestrator waits on an empty channel with no thread running, the      *)
(* receive loop can end.                                                   *)
(***************************************************************************)
C17_NoHangOnPanic ==
    /\ (Sharded /\ ~Total) ~> Returned
    /\ [](/\ pc = "recv"
          /\ channel = << >>
          /\ \A w \in ThreadIds : threads[w].state # "running"
          => ENABLED Return)

\* a sharded call returned although both of its threads panicked
C17_Witness ==
    /\ Returned /\ Sharded
    /\ Len(threads) = 2
    /\ \A w \in ThreadIds : threads[w].state = "panicked"

(***************************************************************************)
(* C18.  When a sharded call returns, a panic has cost exactly the rest    *)
(* of the panicking thread's chunk: in every chunk the slots from the      *)
(* first pair function panics on to the end of the chunk hold the default  *)
(* value, and every other slot i holds function(vector[i]).                *)
(***************************************************************************)
C18_PanicConfinedToChunk ==
    (Returned /\ Sharded) =>
        \A w \in ThreadIds :
            LET chunk == threads[w].vector
                first == FirstPanic(chunk)
            IN  \A k \in 1..Len(chunk) :
                    result[chunk[k][1] + 1] =
                        IF k >= first THEN DefaultR
                        ELSE Apply(function, chunk[k][2])[1]

\* one thread panicked in the middle of its chunk after a value that is
\* not the default, an item behind the panic would have given such a value
\* too, and the other thread finished
C18_Witness ==
    /\ Returned /\ Sharded
    /\ \E w \in ThreadIds :
           /\ threads[w].state = "panicked"
           /\ \E k \in 1..(threads[w].taken - 1) :
                  result[threads[w].vector[k][1] + 1] # DefaultR
           /\ \E k \in (threads[w].taken + 1)..Len(threads[w].vector) :
                  Apply(function, threads[w].vector[k][2]) = Some(TRUE)
    /\ \E w \in ThreadIds :
           /\ threads[w].state = "finished"
           /\ \E k \in 1..Len(threads[w].vector) :
                  result[threads[w].vector[k][1] + 1] # DefaultR

=============================================================================
